---- MODULE Spec2Model ----
(***************************************************************************)
(* Table lineage tracking: the three variants of the lineage tool.         *)
(*   lineage.py            scan_sql_files, extract_referenced_tables,      *)
(*                         build_lineage                                   *)
(*   "data lineage.py"     trace_lineage over a file -> tables map         *)
(*   data_lineage_tool.py  find_files_with_table, trace_lineage            *)
(* Strings that the code inspects character by character are sequences of  *)
(* one-character strings.                                                  *)
(***************************************************************************)
EXTENDS Integers, Sequences, FiniteSets, TLC

VARIABLES
    \* ---- lineage.py: build_lineage and its caller ----
    table_file_map,   \* dict table name -> file path
    fs,               \* file system: path -> file
    selected_table,   \* the table the user selected
    stack,            \* activation records of build_lineage, innermost last
    visited,          \* the visited set shared by all activations
    status,           \* "idle" | "running" | "returned" | "IOError"
    lineage,          \* the list returned by the outermost call
    reads,            \* per table: number of open() attempts in this call
    prev,             \* <<>> or <<list returned by the previous call>>
    calls,            \* number of build_lineage calls made by the caller
    \* ---- lineage.py: extract_referenced_tables alone ----
    sql_content,      \* the argument
    matches,          \* <<>> before the call, <<returned set>> after
    \* ---- lineage.py: scan_sql_files ----
    dir,              \* base_dir: its state and the files os.walk would list
    scan_pc,          \* "idle" | "walking" | "returned"
    scan_idx,         \* position of the loop over the walked files
    scan_map,         \* the table_file_map under construction
    \* ---- "data lineage.py": trace_lineage ----
    table_map,        \* dict file -> set of tables
    start_table,      \* the table the user entered
    t_stack,          \* activation records of trace_lineage
    t_lineage,        \* the lineage dict shared by all activations
    t_status,         \* "idle" | "running" | "returned" | "RecursionError"
    \* ---- data_lineage_tool.py: trace_lineage ----
    repo,             \* repo_path: file -> what its content holds
    target_table,     \* the table the user entered
    l_stack,          \* activation records of trace_lineage
    l_lineage,        \* the lineage dict shared by all activations
    visited_files,    \* the visited_files set shared by all activations
    l_status          \* "idle" | "running" | "returned"
buildVars == <<table_file_map, fs, selected_table, stack, visited, status, lineage, reads, prev, calls>>
extractVars == <<sql_content, matches>>
scanVars == <<dir, scan_pc, scan_idx, scan_map>>
traceVars == <<table_map, start_table, t_stack, t_lineage, t_status>>
toolVars == <<repo, target_table, l_stack, l_lineage, visited_files, l_status>>
vars == <<buildVars, extractVars, scanVars, traceVars, toolVars>>
notBuild == <<extractVars, scanVars, traceVars, toolVars>>
notExtract == <<buildVars, scanVars, traceVars, toolVars>>
notScan == <<buildVars, extractVars, traceVars, toolVars>>
notTrace == <<buildVars, extractVars, scanVars, toolVars>>
notTool == <<buildVars, extractVars, scanVars, traceVars>>

\* ------------------------------------------------------------------------
\* Bounds
MaxRefs == 2          \* table mentions per file content
MaxCalls == 2         \* build_lineage calls per behaviour
RecursionLimit == 6   \* interpreter recursion limit (scaled down)
MaxLen == 5           \* length of a content string given to the extractor
MaxFiles == 3         \* files listed in the scanned directory

\* ------------------------------------------------------------------------
\* Characters and strings
LowerLetters == {"a", "b", "g", "l", "m", "q", "r", "s", "t", "x"}
UpperLetters == {"A", "B", "G", "S"}
IdentChars == LowerLetters \cup {"_"}                \* the class [a-z0-9_]
WordChars == IdentChars \cup UpperLetters            \* the class \w
Alphabet == {"g", "s", "_", "a", " ", "S"}

Range(s) == {s[i] : i \in 1..Len(s)}

LowerChar(c) ==
    CASE c = "A" -> "a" [] c = "B" -> "b" [] c = "G" -> "g" [] c = "S" -> "s"
      [] OTHER -> c
Lower(s) == [i \in 1..Len(s) |-> LowerChar(s[i])]

\* ------------------------------------------------------------------------
\* extract_referenced_tables: re.findall(r'\b(g_|s_|b_)[a-z0-9_]+', s)
Prefixes == {<<"g", "_">>, <<"s", "_">>, <<"b", "_">>}

\* \b before position i, given that s[i] is a word character
WordBoundary(s, i) == i = 1 \/ s[i - 1] \notin WordChars

\* last index of the greedy run [a-z0-9_]+ that starts at k
RECURSIVE RunEnd(_, _)
RunEnd(s, k) ==
    IF k + 1 <= Len(s) /\ s[k + 1] \in IdentChars THEN RunEnd(s, k + 1) ELSE k

\* the pattern matches at position i
MatchesAt(s, i) ==
    /\ i + 2 <= Len(s)
    /\ SubSeq(s, i, i + 1) \in Prefixes
    /\ WordBoundary(s, i)
    /\ s[i + 2] \in IdentChars

\* the successive non-overlapping match objects, left to right
RECURSIVE FindIter(_, _)
FindIter(s, i) ==
    IF i > Len(s) THEN <<>>
    ELSE IF MatchesAt(s, i)
         THEN <<[group0 |-> SubSeq(s, i, RunEnd(s, i + 2)),
                 group1 |-> SubSeq(s, i, i + 1)]>>
              \o FindIter(s, RunEnd(s, i + 2) + 1)
         ELSE FindIter(s, i + 1)

\* re.findall with one capturing group returns the group, not the match
FindAll(s) == [k \in 1..Len(FindIter(s, 1)) |-> FindIter(s, 1)[k].group1]

FindAllWhole(s) == [k \in 1..Len(FindIter(s, 1)) |-> FindIter(s, 1)[k].group0]

extract_referenced_tables(s) == Range(FindAll(s))

\* ------------------------------------------------------------------------
\* Inputs of build_lineage
g_ == <<"g", "_">>
s_ == <<"s", "_">>
b_ == <<"b", "_">>
g_a == <<"g", "_", "a">>
Tables == {g_, s_, b_, g_a}

PathOf(t) == t \o <<".", "s", "q", "l">>
\* a file that open() or read() fails on
Unreadable == [readable |-> FALSE, content |-> <<>>]
File(c) == [readable |-> TRUE, content |-> c]

\* words a file content may mention, in the order they are written
Words == << <<"g", "_", "a">>, <<"S", "_", "a">>, <<"b", "_", "a", "b">> >>

RECURSIVE Join(_)
Join(ws) ==
    IF Len(ws) = 0 THEN <<>>
    ELSE IF Len(ws) = 1 THEN ws[1]
    ELSE ws[1] \o <<" ">> \o Join(Tail(ws))

RECURSIVE Pick(_, _)
Pick(S, k) ==
    IF k > Len(Words) THEN <<>>
    ELSE IF k \in S THEN <<Words[k]>> \o Pick(S, k + 1) ELSE Pick(S, k + 1)

Contents ==
    {Join(Pick(S, 1)) : S \in {X \in SUBSET (1..Len(Words)) : Cardinality(X) <= MaxRefs}}

Paths == {PathOf(t) : t \in Tables}

\* a dict whose values are the table's own file, or the empty path
Catalogs ==
    UNION {[K -> Paths \cup {<<>>}] : K \in SUBSET Tables}

CatalogOk(m) == \A t \in DOMAIN m : m[t] \in {<<>>, PathOf(t)}

FileSystems(m) ==
    [{m[t] : t \in DOMAIN m} \ {<<>>} -> {File(c) : c \in Contents} \cup {Unreadable}]

NoReads == [t \in Tables |-> 0]

\* ------------------------------------------------------------------------
\* build_lineage
Frame(t) == [table_name |-> t, pc |-> "enter", referenced_tables |-> {},
             lineage |-> <<>>]

Top == stack[Len(stack)]
Pop == SubSeq(stack, 1, Len(stack) - 1)
ReplaceTop(f) == [stack EXCEPT ![Len(stack)] = f]

\* main(): visited = set(); lineage = build_lineage(selected_table, ...)
Call ==
    /\ status # "running"
    /\ calls < MaxCalls
    /\ stack' = <<Frame(selected_table)>>
    /\ visited' = {}
    /\ status' = "running"
    /\ lineage' = <<>>
    /\ reads' = NoReads
    /\ prev' = IF status = "returned" THEN <<lineage>> ELSE <<>>
    /\ calls' = calls + 1
    /\ UNCHANGED <<notBuild, table_file_map, fs, selected_table>>

\* `return lst`: the caller extends its list with the value, or the
\* outermost call hands it to main()
ReturnValue(lst) ==
    IF Len(stack) = 1
    THEN /\ stack' = <<>>
         /\ status' = "returned"
         /\ lineage' = lst
    ELSE /\ stack' = [Pop EXCEPT ![Len(stack) - 1].lineage = @ \o lst]
         /\ status' = status
         /\ lineage' = lineage

IsVisited_NoGuard(t, vis) == FALSE
IsVisited(t, vis) == t \in vis

\* if table_name in visited: return []
EnterVisited ==
    /\ status = "running" /\ Top.pc = "enter"
    /\ IsVisited(Top.table_name, visited)
    /\ ReturnValue(<<>>)
    /\ UNCHANGED <<notBuild, table_file_map, fs, selected_table, visited, reads, prev, calls>>

Lookup(t) == IF t \in DOMAIN table_file_map THEN table_file_map[t] ELSE <<>>

\* visited.add; file_path = table_file_map.get(...); if not file_path: return []
EnterMissing ==
    /\ status = "running" /\ Top.pc = "enter"
    /\ ~IsVisited(Top.table_name, visited)
    /\ Lookup(Top.table_name) = <<>>
    /\ visited' = visited \cup {Top.table_name}
    /\ ReturnValue(<<>>)
    /\ UNCHANGED <<notBuild, table_file_map, fs, selected_table, reads, prev, calls>>

\* open(file_path) raises; no activation handles it
EnterIOError ==
    /\ status = "running" /\ Top.pc = "enter"
    /\ ~IsVisited(Top.table_name, visited)
    /\ Lookup(Top.table_name) # <<>>
    /\ ~fs[Lookup(Top.table_name)].readable
    /\ visited' = visited \cup {Top.table_name}
    /\ reads' = [reads EXCEPT ![Top.table_name] = @ + 1]
    /\ stack' = <<>>
    /\ status' = "IOError"
    /\ UNCHANGED <<notBuild, table_file_map, fs, selected_table, lineage, prev, calls>>

MarkVisited_Forgotten(t, vis) == vis
MarkVisited(t, vis) == vis \cup {t}

\* visited.add; open; content = f.read().lower(); extract_referenced_tables
EnterExpand ==
    /\ status = "running" /\ Top.pc = "enter"
    /\ ~IsVisited(Top.table_name, visited)
    /\ Lookup(Top.table_name) # <<>>
    /\ fs[Lookup(Top.table_name)].readable
    /\ visited' = MarkVisited(Top.table_name, visited)
    /\ reads' = [reads EXCEPT ![Top.table_name] = @ + 1]
    /\ stack' = ReplaceTop([Top EXCEPT
            !.pc = "loop",
            !.referenced_tables =
                extract_referenced_tables(
                    Lower(fs[Lookup(Top.table_name)].content))])
    /\ UNCHANGED <<notBuild, table_file_map, fs, selected_table, status, lineage, prev, calls>>

Resolves_Always(ref_table) == TRUE
Resolves_Unvisited(ref_table) ==
    ref_table \in DOMAIN table_file_map /\ ref_table \notin visited
Resolves(ref_table) == ref_table \in DOMAIN table_file_map

\* for ref_table in referenced_tables: if ref_table in table_file_map:
\*     lineage.append((table_name, ref_table)); build_lineage(ref_table, ...)
LoopEdge ==
    /\ status = "running" /\ Top.pc = "loop"
    /\ Len(stack) < RecursionLimit
    /\ \E ref_table \in Top.referenced_tables :
         /\ Resolves(ref_table)
         /\ stack' = ReplaceTop([Top EXCEPT
                 !.referenced_tables = @ \ {ref_table},
                 !.lineage = Append(@, <<Top.table_name, ref_table>>)])
               \o <<Frame(ref_table)>>
    /\ UNCHANGED <<notBuild, table_file_map, fs, selected_table, visited, status, lineage, reads, prev, calls>>

\* a reference with no entry in table_file_map is passed over
LoopSkip ==
    /\ status = "running" /\ Top.pc = "loop"
    /\ \E ref_table \in Top.referenced_tables :
         /\ ~Resolves(ref_table)
         /\ stack' = ReplaceTop([Top EXCEPT !.referenced_tables = @ \ {ref_table}])
    /\ UNCHANGED <<notBuild, table_file_map, fs, selected_table, visited, status, lineage, reads, prev, calls>>

\* return lineage
LoopReturn ==
    /\ status = "running" /\ Top.pc = "loop"
    /\ Top.referenced_tables = {}
    /\ ReturnValue(Top.lineage)
    /\ UNCHANGED <<notBuild, table_file_map, fs, selected_table, visited, reads, prev, calls>>

BuildStep ==
    \/ EnterVisited \/ EnterMissing \/ EnterIOError \/ EnterExpand
    \/ LoopEdge \/ LoopSkip \/ LoopReturn

ExtractIdle == sql_content = <<>> /\ matches = <<>>

BuildIdle ==
    /\ table_file_map = <<>> /\ fs = <<>> /\ selected_table = g_
    /\ stack = <<>> /\ visited = {} /\ status = "idle" /\ lineage = <<>>
    /\ reads = NoReads /\ prev = <<>> /\ calls = 0

ScanIdle ==
    /\ dir = [state |-> "ok", files |-> <<>>]
    /\ scan_pc = "idle" /\ scan_idx = 1 /\ scan_map = <<>>

TraceIdle ==
    /\ table_map = <<>> /\ start_table = "a" /\ t_stack = <<>>
    /\ t_lineage = <<>> /\ t_status = "idle"

ToolIdle ==
    /\ repo = <<>> /\ target_table = "t" /\ l_stack = <<>>
    /\ l_lineage = <<>> /\ visited_files = {} /\ l_status = "idle"

Init ==
    /\ table_file_map \in {m \in Catalogs : CatalogOk(m)}
    /\ fs \in FileSystems(table_file_map)
    /\ selected_table \in Tables
    /\ stack = <<>>
    /\ visited = {}
    /\ status = "idle"
    /\ lineage = <<>>
    /\ reads = NoReads
    /\ prev = <<>>
    /\ calls = 0
    /\ ExtractIdle /\ ScanIdle /\ TraceIdle /\ ToolIdle

Next ==
    \/ Call
    \/ EnterVisited \/ EnterMissing \/ EnterIOError \/ EnterExpand
    \/ LoopEdge \/ LoopSkip \/ LoopReturn

Spec == Init /\ [][Next]_vars

\* once called, build_lineage is run to completion by the interpreter;
\* the catalogs are those over the three tables a file content can name
LiveInit ==
    /\ Init
    /\ g_a \notin DOMAIN table_file_map
    /\ selected_table # g_a
    /\ \A t \in DOMAIN table_file_map : table_file_map[t] # <<>>

FirstCall == calls = 0 /\ Call

LiveNext ==
    \/ FirstCall
    \/ EnterVisited \/ EnterMissing \/ EnterIOError \/ EnterExpand
    \/ LoopEdge \/ LoopSkip \/ LoopReturn

FairSpec == LiveInit /\ [][LiveNext]_vars /\ WF_vars(BuildStep)

\* ------------------------------------------------------------------------
\* extract_referenced_tables called on its own
ContentStrings == UNION {[1..n -> Alphabet] : n \in 0..MaxLen}

Extract ==
    /\ matches = <<>>
    /\ matches' = <<extract_referenced_tables(sql_content)>>
    /\ UNCHANGED <<notExtract, sql_content>>

ExtractInit ==
    /\ sql_content \in ContentStrings
    /\ matches = <<>>
    /\ BuildIdle /\ ScanIdle /\ TraceIdle /\ ToolIdle

ExtractNext == Extract

SpecExtract == ExtractInit /\ [][ExtractNext]_vars

\* ------------------------------------------------------------------------
\* scan_sql_files
EndsWith(s, suffix) ==
    /\ Len(s) >= Len(suffix)
    /\ SubSeq(s, Len(s) - Len(suffix) + 1, Len(s)) = suffix

DotSql == <<".", "s", "q", "l">>

\* positions where \.sql can match after a non-empty (.+) that starts at k + 1
SqlStarts(n, k) ==
    {p \in (k + 2)..(Len(n) - 3) : SubSeq(n, p, p + 3) = DotSql}

\* positions of the underscore that can end the qualifier (\w+?)
QualifierEnds(n) ==
    {k \in 4..Len(n) :
        /\ n[k] = "_"
        /\ \A i \in 3..(k - 1) : n[i] \in WordChars
        /\ SqlStarts(n, k) # {}}

SetMin(S) == CHOOSE x \in S : \A y \in S : x <= y
SetMax(S) == CHOOSE x \in S : \A y \in S : x >= y

\* re.match(r'(g_|s_|b_)(\w+?)_(.+)\.sql', n) succeeds
NameMatches(n) ==
    /\ Len(n) >= 2
    /\ SubSeq(n, 1, 2) \in Prefixes
    /\ QualifierEnds(n) # {}

\* f"{prefix}{base_name}": group 1 and group 3 of the match; the lazy
\* qualifier ends at the first possible underscore, the greedy base name
\* at the last \.sql
SqlTableName(n) ==
    LET k == SetMin(QualifierEnds(n))
        p == SetMax(SqlStarts(n, k))
    IN  SubSeq(n, 1, 2) \o SubSeq(n, k + 1, p - 1)

FileNames ==
    { <<"s", "_", "r", "_", "m", ".", "s", "q", "l">>,
      <<"s", "_", "q", "_", "m", ".", "s", "q", "l">>,
      <<"G", "_", "x", "_", "t", "_", "a", ".", "s", "q", "l">>,
      <<"g", "_", "a", ".", "s", "q", "l">>,
      <<"b", "_", "r", "_", "t", ".", "t", "x", "t">> }

Listings ==
    {l \in UNION {[1..n -> FileNames] : n \in 0..MaxFiles} :
        \A i, j \in 1..Len(l) : l[i] = l[j] => i = j}

\* os.walk(base_dir): listing errors are ignored, nothing is yielded
Walk == IF dir.state = "ok" THEN dir.files ELSE <<>>

ScanCall ==
    /\ scan_pc = "idle"
    /\ scan_pc' = "walking"
    /\ scan_idx' = 1
    /\ scan_map' = <<>>
    /\ UNCHANGED <<notScan, dir>>

\* a file that is not *.sql or whose name does not match is passed over
ScanSkip ==
    /\ scan_pc = "walking" /\ scan_idx <= Len(Walk)
    /\ LET file == Walk[scan_idx] IN
         ~(EndsWith(file, DotSql) /\ NameMatches(Lower(file)))
    /\ scan_idx' = scan_idx + 1
    /\ UNCHANGED <<notScan, dir, scan_pc, scan_map>>

\* table_file_map[sql_table_name] = file_path
ScanMap ==
    /\ scan_pc = "walking" /\ scan_idx <= Len(Walk)
    /\ LET file == Walk[scan_idx]
            name == SqlTableName(Lower(file))
       IN /\ EndsWith(file, DotSql) /\ NameMatches(Lower(file))
          /\ scan_map' = [t \in DOMAIN scan_map \cup {name} |->
                             IF t = name THEN file ELSE scan_map[t]]
    /\ scan_idx' = scan_idx + 1
    /\ UNCHANGED <<notScan, dir, scan_pc>>

\* return table_file_map
ScanReturn ==
    /\ scan_pc = "walking" /\ scan_idx > Len(Walk)
    /\ scan_pc' = "returned"
    /\ UNCHANGED <<notScan, dir, scan_idx, scan_map>>

ScanInit ==
    /\ dir \in [state : {"ok", "unreadable"}, files : Listings]
               \cup {[state |-> "missing", files |-> <<>>]}
    /\ scan_pc = "idle" /\ scan_idx = 1 /\ scan_map = <<>>
    /\ BuildIdle /\ ExtractIdle /\ TraceIdle /\ ToolIdle

ScanNext == ScanCall \/ ScanSkip \/ ScanMap \/ ScanReturn

SpecScan == ScanInit /\ [][ScanNext]_vars

\* ------------------------------------------------------------------------
\* "data lineage.py": trace_lineage(start_table, table_map, lineage)
TraceFiles == <<"f1.sql", "f2.sql">>       \* table_map.items() order
TraceTables == {"a", "b", "c"}

TFrame(t) == [start_table |-> t, pc |-> "files", idx |-> 1, tables |-> {}]

TTop == t_stack[Len(t_stack)]
TReplaceTop(f) == [t_stack EXCEPT ![Len(t_stack)] = f]

\* full_lineage = trace_lineage(gold_table, table_map)
TraceCall ==
    /\ t_status = "idle"
    /\ t_stack' = <<TFrame(start_table)>>
    /\ t_lineage' = <<>>
    /\ t_status' = "running"
    /\ UNCHANGED <<notTrace, table_map, start_table>>

\* if start_table in tables: false
TraceFileSkip ==
    /\ t_status = "running" /\ TTop.pc = "files" /\ TTop.idx <= Len(TraceFiles)
    /\ TTop.start_table \notin table_map[TraceFiles[TTop.idx]]
    /\ t_stack' = TReplaceTop([TTop EXCEPT !.idx = @ + 1])
    /\ UNCHANGED <<notTrace, table_map, start_table, t_lineage, t_status>>

\* lineage[start_table] = tables
TraceFileHit ==
    /\ t_status = "running" /\ TTop.pc = "files" /\ TTop.idx <= Len(TraceFiles)
    /\ LET tables == table_map[TraceFiles[TTop.idx]] IN
         /\ TTop.start_table \in tables
         /\ t_lineage' = [t \in DOMAIN t_lineage \cup {TTop.start_table} |->
                            IF t = TTop.start_table THEN tables ELSE t_lineage[t]]
         /\ t_stack' = TReplaceTop([TTop EXCEPT !.pc = "tables", !.tables = tables])
    /\ UNCHANGED <<notTrace, table_map, start_table, t_status>>

\* for table in tables: if table != start_table: false
TraceTableSelf ==
    /\ t_status = "running" /\ TTop.pc = "tables"
    /\ \E table \in TTop.tables :
         /\ table = TTop.start_table
         /\ t_stack' = TReplaceTop([TTop EXCEPT !.tables = @ \ {table}])
    /\ UNCHANGED <<notTrace, table_map, start_table, t_lineage, t_status>>

\* trace_lineage(table, table_map, lineage)
TraceTableRecurse ==
    /\ t_status = "running" /\ TTop.pc = "tables"
    /\ Len(t_stack) < RecursionLimit
    /\ \E table \in TTop.tables :
         /\ table # TTop.start_table
         /\ t_stack' = TReplaceTop([TTop EXCEPT !.tables = @ \ {table}])
                         \o <<TFrame(table)>>
    /\ UNCHANGED <<notTrace, table_map, start_table, t_lineage, t_status>>

\* the call that exceeds the interpreter's recursion limit raises
TraceRecursionError ==
    /\ t_status = "running" /\ TTop.pc = "tables"
    /\ Len(t_stack) >= RecursionLimit
    /\ \E table \in TTop.tables : table # TTop.start_table
    /\ t_stack' = <<>>
    /\ t_status' = "RecursionError"
    /\ UNCHANGED <<notTrace, table_map, start_table, t_lineage>>

\* the inner loop is exhausted: next item of table_map
TraceTablesDone ==
    /\ t_status = "running" /\ TTop.pc = "tables"
    /\ TTop.tables = {}
    /\ t_stack' = TReplaceTop([TTop EXCEPT !.pc = "files", !.idx = @ + 1])
    /\ UNCHANGED <<notTrace, table_map, start_table, t_lineage, t_status>>

\* return lineage
TraceReturn ==
    /\ t_status = "running" /\ TTop.pc = "files" /\ TTop.idx > Len(TraceFiles)
    /\ t_stack' = SubSeq(t_stack, 1, Len(t_stack) - 1)
    /\ t_status' = IF Len(t_stack) = 1 THEN "returned" ELSE t_status
    /\ UNCHANGED <<notTrace, table_map, start_table, t_lineage>>

TraceInit ==
    /\ table_map \in [Range(TraceFiles) -> SUBSET TraceTables]
    /\ start_table \in TraceTables
    /\ t_stack = <<>> /\ t_lineage = <<>> /\ t_status = "idle"
    /\ BuildIdle /\ ExtractIdle /\ ScanIdle /\ ToolIdle

TraceNext ==
    \/ TraceCall \/ TraceFileSkip \/ TraceFileHit \/ TraceTableSelf
    \/ TraceTableRecurse \/ TraceRecursionError \/ TraceTablesDone
    \/ TraceReturn

SpecTrace == TraceInit /\ [][TraceNext]_vars

\* ------------------------------------------------------------------------
\* data_lineage_tool.py: find_files_with_table and trace_lineage
RepoFiles == <<"f1.sql", "f2.sql", "f3.sql">>    \* os.walk order
RepoTables == {"a", "b", "t"}

LowerName(n) == CASE n = "T" -> "t" [] OTHER -> n

\* what the traversal uses of a file: the names its lower-cased content
\* contains, and the result of extract_tables on it
RepoFile(m, ts) == [mentions |-> m, tables |-> ts, logic |-> <<>>]

\* keys of relevant_files, in the order the files are walked
find_files_with_table(tt) ==
    SelectSeq(RepoFiles, LAMBDA f : LowerName(tt) \in repo[f].mentions)

LFrame(tt) == [target_table |-> tt, pc |-> "files",
               relevant_files |-> find_files_with_table(tt),
               file_path |-> "", tables |-> {}]

LTop == l_stack[Len(l_stack)]
LReplaceTop(f) == [l_stack EXCEPT ![Len(l_stack)] = f]

\* `table not in lineage[target_table]`: the list holds (table, file_path,
\* logic) tuples and a str never equals a tuple
EqualsEntry(table, entry) == FALSE
NotInList(table, entries) ==
    ~\E i \in 1..Len(entries) : EqualsEntry(table, entries[i])

\* full_lineage = trace_lineage(gold_table, repo_path)
ToolCall ==
    /\ l_status = "idle"
    /\ l_stack' = <<LFrame(target_table)>>
    /\ l_lineage' = <<>>
    /\ visited_files' = {}
    /\ l_status' = "running"
    /\ UNCHANGED <<notTool, repo, target_table>>

\* if file_path in visited_files: continue
ToolFileVisited ==
    /\ l_status = "running" /\ LTop.pc = "files" /\ LTop.relevant_files # <<>>
    /\ Head(LTop.relevant_files) \in visited_files
    /\ l_stack' = LReplaceTop([LTop EXCEPT !.relevant_files = Tail(@)])
    /\ UNCHANGED <<notTool, repo, target_table, l_lineage, visited_files, l_status>>

\* visited_files.add(file_path); lineage.setdefault(target_table, [])
ToolFileNew ==
    /\ l_status = "running" /\ LTop.pc = "files" /\ LTop.relevant_files # <<>>
    /\ LET f == Head(LTop.relevant_files)
           tt == LTop.target_table
       IN /\ f \notin visited_files
          /\ visited_files' = visited_files \cup {f}
          /\ l_lineage' = IF tt \in DOMAIN l_lineage THEN l_lineage
                          ELSE [t \in DOMAIN l_lineage \cup {tt} |->
                                   IF t = tt THEN <<>> ELSE l_lineage[t]]
          /\ l_stack' = LReplaceTop([LTop EXCEPT
                  !.relevant_files = Tail(@),
                  !.pc = "tables",
                  !.file_path = f,
                  !.tables = repo[f].tables])
    /\ UNCHANGED <<notTool, repo, target_table, l_status>>

\* the condition of the inner loop fails for this table
ToolTableSkip ==
    /\ l_status = "running" /\ LTop.pc = "tables"
    /\ \E table \in LTop.tables :
         /\ ~(table # LTop.target_table
                /\ NotInList(table, l_lineage[LTop.target_table]))
         /\ l_stack' = LReplaceTop([LTop EXCEPT !.tables = @ \ {table}])
    /\ UNCHANGED <<notTool, repo, target_table, l_lineage, visited_files, l_status>>

\* lineage[target_table].append(...); trace_lineage(table, ...)
ToolTableAppend ==
    /\ l_status = "running" /\ LTop.pc = "tables"
    /\ \E table \in LTop.tables :
         /\ table # LTop.target_table
         /\ NotInList(table, l_lineage[LTop.target_table])
         /\ l_lineage' = [l_lineage EXCEPT ![LTop.target_table] =
                Append(@, <<table, LTop.file_path, repo[LTop.file_path].logic>>)]
         /\ l_stack' = LReplaceTop([LTop EXCEPT !.tables = @ \ {table}])
                         \o <<LFrame(table)>>
    /\ UNCHANGED <<notTool, repo, target_table, visited_files, l_status>>

\* the inner loop is exhausted: next relevant file
ToolTablesDone ==
    /\ l_status = "running" /\ LTop.pc = "tables"
    /\ LTop.tables = {}
    /\ l_stack' = LReplaceTop([LTop EXCEPT !.pc = "files"])
    /\ UNCHANGED <<notTool, repo, target_table, l_lineage, visited_files, l_status>>

\* return lineage
ToolReturn ==
    /\ l_status = "running" /\ LTop.pc = "files" /\ LTop.relevant_files = <<>>
    /\ l_stack' = SubSeq(l_stack, 1, Len(l_stack) - 1)
    /\ l_status' = IF Len(l_stack) = 1 THEN "returned" ELSE l_status
    /\ UNCHANGED <<notTool, repo, target_table, l_lineage, visited_files>>

RepoFileStates ==
    {RepoFile(m, ts) : m \in SUBSET RepoTables, ts \in SUBSET RepoTables} 

ToolInit ==
    /\ repo \in [Range(RepoFiles) -> {r \in RepoFileStates : r.tables \subseteq r.mentions}]
    /\ target_table \in {"t", "T"}
    /\ l_stack = <<>> /\ l_lineage = <<>> /\ visited_files = {}
    /\ l_status = "idle"
    /\ BuildIdle /\ ExtractIdle /\ ScanIdle /\ TraceIdle

ToolNext ==
    \/ ToolCall \/ ToolFileVisited \/ ToolFileNew \/ ToolTableSkip
    \/ ToolTableAppend \/ ToolTablesDone \/ ToolReturn

SpecTool == ToolInit /\ [][ToolNext]_vars

\* ------------------------------------------------------------------------
\* Properties of build_lineage

Finished == status \in {"returned", "IOError"}

\* the reference set the extractor returns for the file of table t
RefsOf(t) == extract_referenced_tables(Lower(fs[table_file_map[t]].content))

Expanded(t) == reads[t] > 0 /\ fs[table_file_map[t]].readable

NoDuplicates(lst) == \A i, j \in 1..Len(lst) : lst[i] = lst[j] => i = j

\* C1: every build_lineage call started with an empty visited set comes to
\* an end, whatever the catalog (cycles and self-references included), and
\* no table's file is opened more than once during the call.
C1_TerminatesExpandingOnce ==
    /\ (status = "running") ~> Finished
    /\ [](\A t \in Tables : reads[t] <= 1)

\* a finished traversal of two tables that reference each other
C1_Witness ==
    /\ status = "returned"
    /\ \E a, b \in Tables :
         /\ a # b
         /\ Expanded(a) /\ b \in RefsOf(a)
         /\ Expanded(b) /\ a \in RefsOf(b)

\* C2: the list returned by build_lineage holds no edge (X, X).
C2_NoSelfLoop ==
    status = "returned" => \A e \in Range(lineage) : e[1] # e[2]

\* C3: a file that cannot be opened makes its table a leaf; the call still
\* returns its edges and no error reaches the caller.
C3_NoErrorEscapes ==
    /\ status # "IOError"
    /\ status = "returned" =>
         \A t \in DOMAIN table_file_map :
            (reads[t] > 0 /\ ~fs[table_file_map[t]].readable)
                => \A e \in Range(lineage) : e[1] # t

\* C4 as stated: an expanded table's reference to a table without catalog
\* entry appears as an edge of the returned list.
C4_DanglingEdgeEmitted ==
    status = "returned" =>
        \A t \in DOMAIN table_file_map :
            Expanded(t) =>
                \A r \in RefsOf(t) \ DOMAIN table_file_map :
                    <<t, r>> \in Range(lineage)

\* the catalog {g_a: file mentioning S_a}, with g_a selected
SingleEntryScenario ==
    /\ DOMAIN table_file_map = {g_a}
    /\ table_file_map[g_a] = PathOf(g_a)
    /\ fs[PathOf(g_a)] = File(Words[2])
    /\ selected_table = g_a

\* C4 amended: a reference to a table without catalog entry yields no edge
\* and no file is read for it: every dependency of the returned list is a
\* catalog key, only catalog keys are opened, and the single-entry catalog
\* whose file mentions another table returns the empty list.
C4_DanglingDropped ==
    status = "returned" =>
        /\ \A e \in Range(lineage) : e[2] \in DOMAIN table_file_map
        /\ \A t \in Tables : reads[t] > 0 => t \in DOMAIN table_file_map
        /\ SingleEntryScenario => lineage = <<>>

\* a returned traversal that expanded a file with a dangling reference
\* next to a resolved one
C4_Witness ==
    /\ status = "returned"
    /\ \E t \in DOMAIN table_file_map :
         /\ Expanded(t)
         /\ RefsOf(t) \ DOMAIN table_file_map # {}
         /\ RefsOf(t) \cap DOMAIN table_file_map # {}

\* the catalog {g_: file mentioning s_..., s_: file mentioning g_...}
CycleScenario ==
    /\ DOMAIN table_file_map = {g_, s_}
    /\ table_file_map[g_] = PathOf(g_) /\ table_file_map[s_] = PathOf(s_)
    /\ fs[PathOf(g_)] = File(Words[2])
    /\ fs[PathOf(s_)] = File(Words[1])
    /\ selected_table = g_

\* C6: no ordered pair occurs twice in the returned list; the two-table
\* cycle returns each of its two edges exactly once.
C6_NoDuplicateEdge ==
    status = "returned" =>
        /\ NoDuplicates(lineage)
        /\ CycleScenario => lineage = << <<g_, s_>>, <<s_, g_>> >>

\* a returned traversal in which one table is referenced from two
\* expanded files
C6_Witness ==
    /\ status = "returned"
    /\ \E a, b, c \in DOMAIN table_file_map :
         /\ a # b
         /\ <<a, c>> \in Range(lineage)
         /\ <<b, c>> \in Range(lineage)

\* C7: two calls with the same table and catalog return the same set of
\* pairs.
C7_SameEdgeSet ==
    (status = "returned" /\ prev # <<>>) => Range(lineage) = Range(prev[1])

\* two calls that returned the same pairs in different orders
C7_Witness ==
    /\ status = "returned" /\ prev # <<>>
    /\ lineage # prev[1]
    /\ Len(lineage) >= 3

\* ------------------------------------------------------------------------
\* Properties of extract_referenced_tables

\* C5: the returned set is the set of whole identifiers (prefix and the run
\* that follows it) occurring in the content.
C5_WholeIdentifiers ==
    matches # <<>> => matches[1] = Range(FindAllWhole(sql_content))

\* ------------------------------------------------------------------------
\* Properties of scan_sql_files

\* C9: a base directory that is missing or unreadable never yields a
\* returned (empty) catalog.
C9_MissingDirectoryIsError ==
    ~(scan_pc = "returned" /\ dir.state # "ok")

\* ------------------------------------------------------------------------
\* Properties of the two trace_lineage variants

\* C8: trace_lineage of "data lineage.py" comes to an end on every
\* table_map and start table: the recursion never exhausts the stack.
C8_TraceTerminates == t_status # "RecursionError"

\* C10: no entry list of the returned mapping names one dependency twice,
\* and no entry names the table it belongs to.
C10_EntriesDistinct ==
    l_status = "returned" =>
        \A t \in DOMAIN l_lineage :
            /\ \A i, j \in 1..Len(l_lineage[t]) :
                 l_lineage[t][i][1] = l_lineage[t][j][1] => i = j
            /\ \A i \in 1..Len(l_lineage[t]) : l_lineage[t][i][1] # t

====
